---- MODULE Spec2Model ----
(***************************************************************************)
(* A model of update_releases.py: the paginated tag listing, the per-tag   *)
(* download and extraction, and the regeneration of index.html.            *)
(*                                                                         *)
(* Strings whose characters the code inspects (Link headers, URLs, path    *)
(* names, release names) are tuples of one-character strings.  A tag is a  *)
(* single path segment.  Archives hold regular files and directories (no   *)
(* links or device entries).                                               *)
(***************************************************************************)
EXTENDS Integers, Sequences, FiniteSets, TLC

VARIABLES
    server,      \* the remote listing: a sequence of pages
    style,       \* how the remote spaces the entries of its Link header
    run,         \* number of the current invocation of main()
    pc,          \* position of main() in its control flow
    url,         \* fetch_all_tags: the loop variable url (an option)
    tags,        \* fetch_all_tags: the list tags; then main's tags
    requests,    \* the URLs requested by fetch_all_tags, in order
    pos,         \* ensure_releases: index of the tag the loop is at
    downloaded,  \* ensure_releases: the list downloaded
    disk,        \* working directory: what exists under each tag's name
    index,       \* contents of index.html
    tmpFiles,    \* temporary archive files that exist
    scratch,     \* scratch extraction directories that exist
    tarball,     \* the archive held by the temporary file being processed
    ext,         \* outcome of the extract_release call that just returned
    exit,        \* exit status of the invocation that ended last
    started,     \* disk and index.html as they were when the run began
    prev,        \* index.html and exit status at the end of the previous run
    downloads,   \* download requests issued in the current run
    fault,       \* the operation of the current run that raised, if any
    releases,    \* render_index: its argument
    html         \* render_index: its result

vars == <<server, style, run, pc, url, tags, requests, pos, downloaded, disk,
          index, tmpFiles, scratch, tarball, ext, exit, started, prev,
          downloads, fault, releases, html>>

(***************************************************************************)
(* Bounds of the model.                                                    *)
(***************************************************************************)
MaxPages == 2

MaxPerPage == 1

MaxRuns == 2

MaxEntries == 2

MaxReleases == 3

(***************************************************************************)
(* Python values.                                                          *)
(***************************************************************************)
None == <<>>

Some(v) == <<v>>

\* Python's truth value of an Optional[str]: None and "" are false.
Truthy(opt) == opt # None /\ opt[1] # <<>>

\* s[a:-1] of Python, for a >= 0
SliceToLast(s, a) == SubSeq(s, a + 1, Len(s) - 1)

StartsWith(s, p) == Len(p) <= Len(s) /\ SubSeq(s, 1, Len(p)) = p

EndsWith(s, p) == Len(p) <= Len(s) /\ SubSeq(s, Len(s) - Len(p) + 1, Len(s)) = p

RECURSIVE LStrip(_)
LStrip(s) ==
    IF s # <<>> /\ Head(s) = " " THEN LStrip(Tail(s)) ELSE s

RECURSIVE RStrip(_)
RStrip(s) ==
    IF s # <<>> /\ s[Len(s)] = " " THEN RStrip(SubSeq(s, 1, Len(s) - 1)) ELSE s

\* str.strip()
Strip(s) == RStrip(LStrip(s))

\* str.split(c): the pieces between the occurrences of c, at least one piece
RECURSIVE SplitFrom(_, _, _)
SplitFrom(s, c, cur) ==
    IF s = <<>> THEN <<cur>>
    ELSE IF Head(s) = c THEN <<cur>> \o SplitFrom(Tail(s), c, <<>>)
    ELSE SplitFrom(Tail(s), c, Append(cur, Head(s)))

Split(s, c) == SplitFrom(s, c, <<>>)

\* sep.join(parts)
RECURSIVE Join(_, _)
Join(parts, sep) ==
    IF parts = <<>> THEN <<>>
    ELSE IF Len(parts) = 1 THEN parts[1]
    ELSE parts[1] \o sep \o Join(Tail(parts), sep)

\* dict item assignment d[k] = v, and d.get(k)
DictSet(d, k, v) == (k :> v) @@ d

DictGet(d, k) == IF k \in DOMAIN d THEN Some(d[k]) ELSE None

EmptyDict == [k \in {} |-> <<>>]

(***************************************************************************)
(* parse_link_header                                                       *)
(***************************************************************************)
RelOpen == <<"r", "e", "l", "=", "\"">>

RelNext == <<"n", "e", "x", "t">>

RelFirst == <<"f", "i", "r", "s", "t">>

\* ParsePart without the calls of strip()
ParsePartNoStrip(rels, part) ==
    LET section == Split(part, ";")
    IN  IF Len(section) < 2 THEN rels
        ELSE LET url_part == section[1]
                 rel_part == section[2]
             IN  IF ~(StartsWith(url_part, <<"<">>) /\ EndsWith(url_part, <<">">>))
                 THEN rels
                 ELSE IF StartsWith(rel_part, RelOpen) /\ EndsWith(rel_part, <<"\"">>)
                 THEN DictSet(rels, SliceToLast(rel_part, 5), SliceToLast(url_part, 1))
                 ELSE rels

\* One pass of the loop body over a comma-separated part.
ParsePart(rels, part) ==
    LET section == Split(Strip(part), ";")
    IN  IF Len(section) < 2 THEN rels
        ELSE LET url_part == Strip(section[1])
                 rel_part == Strip(section[2])
             IN  IF ~(StartsWith(url_part, <<"<">>) /\ EndsWith(url_part, <<">">>))
                 THEN rels
                 ELSE IF StartsWith(rel_part, RelOpen) /\ EndsWith(rel_part, <<"\"">>)
                 THEN DictSet(rels, SliceToLast(rel_part, 5), SliceToLast(url_part, 1))
                 ELSE rels

RECURSIVE ParseParts(_, _)
ParseParts(rels, parts) ==
    IF parts = <<>> THEN rels
    ELSE ParseParts(ParsePart(rels, Head(parts)), Tail(parts))

parse_link_header(header) == ParseParts(EmptyDict, Split(header, ","))

(***************************************************************************)
(* The remote listing endpoint.  Page k is served at PageUrl(k); a page    *)
(* that is not the last names the next page in its Link header, and any    *)
(* page may also name the first one, before or after the next entry.       *)
(***************************************************************************)
TagNames == {<<"v", "1">>, <<"v", "2">>}

Digits == <<"1", "2", "3", "4", "5", "6", "7", "8", "9">>

\* API_TAGS_URL + "?per_page=100" is PageUrl(1)
PageUrl(k) == <<"u", "?", Digits[k]>>

SeqsUpTo(S, n) == UNION {[1..m -> S] : m \in 0..n}

Extras == {"none", "before", "after"}

Pages(extras) == [names : SeqsUpTo(TagNames, MaxPerPage), extra : extras]

Servers(extras) == UNION {[1..n -> Pages(extras)] : n \in 1..MaxPages}

\* One entry of a Link header: <url>; rel="name"
LinkEntry(u, rel, st) ==
    <<"<">> \o u \o <<">">> \o (IF st = "spaced" THEN <<";", " ">> ELSE <<";">>)
        \o RelOpen \o rel \o <<"\"">>

LinkEntries(srv, k, st) ==
    LET nxt == IF k < Len(srv) THEN <<LinkEntry(PageUrl(k + 1), RelNext, st)>> ELSE <<>>
        fst == <<LinkEntry(PageUrl(1), RelFirst, st)>>
    IN  CASE srv[k].extra = "none" -> nxt
          [] srv[k].extra = "before" -> fst \o nxt
          [] srv[k].extra = "after" -> nxt \o fst

\* resp.headers.get("Link"): None when the page carries no entry
LinkHeader(srv, k, st) ==
    IF LinkEntries(srv, k, st) = <<>> THEN None
    ELSE Some(Join(LinkEntries(srv, k, st),
                   IF st = "spaced" THEN <<",", " ">> ELSE <<",">>))

\* The page served at URL u: 0 when there is none
PageAt(srv, u) ==
    IF \E k \in 1..Len(srv) : PageUrl(k) = u
    THEN CHOOSE k \in 1..Len(srv) : PageUrl(k) = u
    ELSE 0

(***************************************************************************)
(* fetch_all_tags: one iteration of its loop per step.                     *)
(***************************************************************************)
NextUrl(link_header) ==
    IF Truthy(link_header)
    THEN DictGet(parse_link_header(link_header[1]), RelNext)
    ELSE None

(***************************************************************************)
(* Paths.  A segment is a tuple of characters; a member name is relative   *)
(* or absolute; a resolved path is the tuple of its segments from the      *)
(* root.                                                                   *)
(***************************************************************************)
DotDot == <<".", ".">>

Rel(segs) == [abs |-> FALSE, segs |-> segs]

Abs(segs) == [abs |-> TRUE, segs |-> segs]

\* dest_path / member.name: an absolute name replaces the left operand
JoinPath(dest, name) == IF name.abs THEN name.segs ELSE dest \o name.segs

\* Path.resolve() where no symbolic link exists: ".." drops a segment
RECURSIVE ResolveFrom(_, _)
ResolveFrom(acc, segs) ==
    IF segs = <<>> THEN acc
    ELSE IF Head(segs) = DotDot
    THEN ResolveFrom(SubSeq(acc, 1, Len(acc) - 1), Tail(segs))
    ELSE ResolveFrom(Append(acc, Head(segs)), Tail(segs))

Resolve(segs) == ResolveFrom(<<>>, segs)

\* str(path) of an absolute path
RECURSIVE PathStr(_)
PathStr(segs) ==
    IF segs = <<>> THEN <<"/">>
    ELSE IF Len(segs) = 1 THEN <<"/">> \o segs[1]
    ELSE <<"/">> \o segs[1] \o PathStr(Tail(segs))

\* Path(name).parts[0]
Parts0(name) == IF name.abs THEN <<"/">> ELSE name.segs[1]

\* whether resolved path p is dest itself or lies below it
IsUnder(p, dest) == Len(dest) <= Len(p) /\ SubSeq(p, 1, Len(dest)) = dest

(***************************************************************************)
(* Archives: the members of a tarball, in order.                           *)
(***************************************************************************)
Seg_r == <<"r">>

Seg_s == <<"s">>

EntrySet ==
    { [name |-> Rel(<<Seg_r>>), type |-> "dir"],
      [name |-> Rel(<<Seg_r, <<"a">>>>), type |-> "file"],
      [name |-> Rel(<<Seg_s, <<"b">>>>), type |-> "file"],
      [name |-> Rel(<<<<"f">>>>), type |-> "file"],
      [name |-> Rel(<<DotDot, <<"e">>>>), type |-> "file"],
      [name |-> Rel(<<DotDot, <<"b", "1", "x">>, <<"e">>>>), type |-> "file"],
      [name |-> Abs(<<<<"e">>>>), type |-> "file"] }

Archives == SeqsUpTo(EntrySet, MaxEntries)

\* a release tree, a lone file, two roots, an escaping member
SmallArchives ==
    { <<[name |-> Rel(<<Seg_r>>), type |-> "dir"],
        [name |-> Rel(<<Seg_r, <<"a">>>>), type |-> "file"]>>,
      <<[name |-> Rel(<<<<"f">>>>), type |-> "file"]>>,
      <<[name |-> Rel(<<Seg_r, <<"a">>>>), type |-> "file"],
        [name |-> Rel(<<Seg_s, <<"b">>>>), type |-> "file"]>>,
      <<[name |-> Rel(<<DotDot, <<"e">>>>), type |-> "file"]>> }

\* tempfile.mkdtemp(prefix="blockscape-") below the temporary directory
TmpDir == <<<<"t">>>>

ScratchNames == {<<"b", "1">>, <<"b", "2">>}

ScratchPath(d) == TmpDir \o <<d>>

TmpNames == {"t1", "t2"}

(***************************************************************************)
(* safe_extract_all                                                        *)
(***************************************************************************)
\* the test of line 81 for one member
MemberAccepted(dest, m) ==
    StartsWith(PathStr(Resolve(JoinPath(dest, m.name))), PathStr(dest))

SafeCheck(dest, a) == \A i \in 1..Len(a) : MemberAccepted(dest, a[i])

\* tarfile's "data" filter: a leading "/" is stripped, and a member that
\* would land outside dest is refused
FilterTarget(dest, m) == Resolve(dest \o m.name.segs)

FilterAccepts(dest, m) == IsUnder(FilterTarget(dest, m), dest)

\* tar.extractall(dest, filter="data"): members are filtered and written one
\* by one, in order; the first refused member raises.  The members written
\* so far, and whether all were.
RECURSIVE ExtractAll(_, _, _)
ExtractAll(dest, a, done) ==
    IF a = <<>> THEN [ok |-> TRUE, written |-> done]
    ELSE IF ~FilterAccepts(dest, Head(a)) THEN [ok |-> FALSE, written |-> done]
    ELSE ExtractAll(dest, Tail(a),
                    Append(done, [path |-> FilterTarget(dest, Head(a)),
                                  type |-> Head(a).type]))

(***************************************************************************)
(* extract_release, lines 104 to 112, in scratch directory d               *)
(***************************************************************************)
IsEmptyName(name) == ~name.abs /\ name.segs = <<>>

RootNames(a) == {Parts0(a[i].name) : i \in {j \in 1..Len(a) : ~IsEmptyName(a[j].name)}}

\* extracted_root.exists()
RootExists(dest, root, written) ==
    \E i \in 1..Len(written) : IsUnder(written[i].path, Append(dest, root))

\* what kind of thing tmp_dir / root is
RootKind(dest, root, written) ==
    IF \E i \in 1..Len(written) :
          /\ IsUnder(written[i].path, Append(dest, root))
          /\ (Len(written[i].path) > Len(dest) + 1 \/ written[i].type = "dir")
    THEN "dir" ELSE "file"

Extraction(a, d) ==
    LET dest == ScratchPath(d)
    IN  IF ~SafeCheck(dest, a)
        THEN [result |-> "unsafe", written |-> <<>>, kind |-> "none"]
        ELSE LET x == ExtractAll(dest, a, <<>>)
                 roots == RootNames(a)
             IN  IF ~x.ok
                 THEN [result |-> "filter", written |-> x.written, kind |-> "none"]
                 ELSE IF Cardinality(roots) # 1
                 THEN [result |-> "structure", written |-> x.written, kind |-> "none"]
                 ELSE LET root == CHOOSE r \in roots : TRUE
                      IN  IF ~RootExists(dest, root, x.written)
                          THEN [result |-> "missing", written |-> x.written,
                                kind |-> "none"]
                          ELSE [result |-> "ok", written |-> x.written,
                                kind |-> RootKind(dest, root, x.written)]

(***************************************************************************)
(* The working directory.                                                  *)
(***************************************************************************)
Absent == [kind |-> "absent", stamp |-> 0]

\* Path(tag).exists() and Path.is_dir()
Exists(d, t) == d[t].kind # "absent"

IsDir(d, t) == d[t].kind = "dir"

\* shutil.move(extracted_root, target_dir): creates the target, or moves
\* into a directory that is already there
Move(d, t, kind) ==
    [d EXCEPT ![t] = [kind |-> IF d[t].kind = "dir" THEN "dir" ELSE kind,
                      stamp |-> d[t].stamp + 1]]

\* NamedTemporaryFile(delete=False), mkdtemp, unlink(missing_ok=True), rmtree
Create(S, f) == S \cup {f}

Unlink(S, f) == S \ {f}

Rmtree(S, d) == S \ {d}

(***************************************************************************)
(* render_index                                                            *)
(***************************************************************************)
\* code points of the characters of release names
Ord(c) ==
    CASE c = "." -> 46
      [] c = "0" -> 48
      [] c = "1" -> 49
      [] c = "2" -> 50
      [] c = "9" -> 57
      [] c = "v" -> 118

\* a < b for Python strings
RECURSIVE StrLess(_, _)
StrLess(a, b) ==
    IF b = <<>> THEN FALSE
    ELSE IF a = <<>> THEN TRUE
    ELSE IF Head(a) # Head(b) THEN Ord(Head(a)) < Ord(Head(b))
    ELSE StrLess(Tail(a), Tail(b))

\* InsertDesc without reverse=True
RECURSIVE InsertAsc(_, _)
InsertAsc(sorted, x) ==
    IF sorted = <<>> THEN <<x>>
    ELSE IF StrLess(x, Head(sorted)) THEN <<x>> \o sorted
    ELSE <<Head(sorted)>> \o InsertAsc(Tail(sorted), x)

\* sorted(..., reverse=True) is stable: x goes before the first smaller one
RECURSIVE InsertDesc(_, _)
InsertDesc(sorted, x) ==
    IF sorted = <<>> THEN <<x>>
    ELSE IF StrLess(Head(sorted), x) THEN <<x>> \o sorted
    ELSE <<Head(sorted)>> \o InsertDesc(Tail(sorted), x)

RECURSIVE SortedDesc(_)
SortedDesc(s) ==
    IF s = <<>> THEN <<>>
    ELSE InsertDesc(SortedDesc(SubSeq(s, 1, Len(s) - 1)), s[Len(s)])

DocsSuffix == <<"/", "d", "o", "c", "s", "/">>

\* <li><a href="{name}/docs/">{name}</a></li>
LinkItem(name) == [href |-> name \o DocsSuffix, text |-> name]

\* <li>No releases downloaded yet.</li>
Placeholder == [href |-> <<>>, text |-> <<"N", "o">>]

\* the list items of the document; the rest of the document is fixed text
render_index(release_dirs) ==
    LET order == SortedDesc(release_dirs)
        items == [i \in 1..Len(order) |-> LinkItem(order[i])]
    IN  IF items = <<>> THEN <<Placeholder>> ELSE items

\* the orders in which a set may be iterated
Enumerations(S) ==
    {s \in [1..Cardinality(S) -> S] : \A i, j \in 1..Cardinality(S) : i # j => s[i] # s[j]}

(***************************************************************************)
(* State at construction.                                                  *)
(***************************************************************************)
NoTarball == [file |-> "none", archive |-> <<>>]

NoExt == [result |-> "none", tag |-> <<>>, archive |-> <<>>, dir |-> <<>>,
          written |-> <<>>, kind |-> "none"]

\* an index.html that was there before, with content of its own
OldIndex == Some(<<[href |-> <<"o">>, text |-> <<"o">>]>>)

DiskStates ==
    [TagNames -> {Absent, [kind |-> "dir", stamp |-> 0], [kind |-> "file", stamp |-> 0]}]

InitCommon ==
    /\ run = 0
    /\ pc = "idle"
    /\ url = None
    /\ tags = <<>>
    /\ requests = <<>>
    /\ pos = 0
    /\ downloaded = <<>>
    /\ tmpFiles = {}
    /\ scratch = {}
    /\ tarball = NoTarball
    /\ ext = NoExt
    /\ exit = 0
    /\ started = [disk |-> disk, index |-> index]
    /\ prev = [index |-> index, exit |-> 0, ran |-> FALSE]
    /\ downloads = 0
    /\ fault = "none"
    /\ html = None

\* the orchestrator against a remote that sends plain headers
Init ==
    /\ server \in Servers({"none"})
    /\ style = "spaced"
    /\ disk \in DiskStates
    /\ index \in {None, OldIndex}
    /\ releases = <<>>
    /\ InitCommon

\* the tag lister against every remote of the bounds
InitTags ==
    /\ server \in Servers(Extras)
    /\ style \in {"spaced", "tight"}
    /\ disk = [t \in TagNames |-> Absent]
    /\ index = None
    /\ releases = <<>>
    /\ InitCommon

\* the extractor: one listed tag, an empty working directory
InitExtract ==
    /\ server \in {<<[names |-> <<t>>, extra |-> "none"]>> : t \in TagNames}
    /\ style = "spaced"
    /\ disk = [t \in TagNames |-> Absent]
    /\ index = None
    /\ releases = <<>>
    /\ InitCommon

(***************************************************************************)
(* main, lines 175 to 186, with fetch_all_tags                             *)
(***************************************************************************)
\* the process is started; fetch_all_tags sets up its loop
StartRun ==
    /\ pc = "idle"
    /\ run < MaxRuns
    /\ run' = run + 1
    /\ pc' = "fetch"
    /\ url' = Some(PageUrl(1))
    /\ tags' = <<>>
    /\ requests' = <<>>
    /\ pos' = 0
    /\ downloaded' = <<>>
    /\ downloads' = 0
    /\ started' = [disk |-> disk, index |-> index]
    /\ prev' = [index |-> index, exit |-> exit, ran |-> run > 0]
    /\ fault' = "none"
    /\ UNCHANGED <<server, style, disk, index, tmpFiles, scratch, tarball, ext,
                   exit, releases, html>>

\* one iteration of the loop of fetch_all_tags whose request is answered
FetchPage ==
    /\ pc = "fetch"
    /\ Truthy(url)
    /\ PageAt(server, url[1]) # 0
    /\ LET k == PageAt(server, url[1])
           nxt == NextUrl(LinkHeader(server, k, style))
       IN  /\ requests' = Append(requests, url[1])
           /\ tags' = tags \o server[k].names
           /\ url' = nxt
           /\ pc' = IF Truthy(nxt) THEN "fetch" ELSE "listed"
    /\ UNCHANGED <<server, style, run, pos, downloaded, disk, index, tmpFiles,
                   scratch, tarball, ext, exit, started, prev, downloads,
                   releases, html, fault>>

\* FetchFail with the exception swallowed inside the loop of fetch_all_tags:
\* the tags listed so far are returned
FetchFailPartial ==
    /\ pc = "fetch"
    /\ Truthy(url)
    /\ requests' = Append(requests, url[1])
    /\ url' = None
    /\ fault' = "listing"
    /\ pc' = "listed"
    /\ UNCHANGED <<server, style, run, tags, pos, downloaded, disk, index,
                   tmpFiles, scratch, tarball, ext, exit, started, prev,
                   downloads, releases, html>>

\* a request of fetch_all_tags raises; main reports it and returns 1
FetchFail ==
    /\ pc = "fetch"
    /\ Truthy(url)
    /\ requests' = Append(requests, url[1])
    /\ tags' = <<>>
    /\ url' = None
    /\ exit' = 1
    /\ pc' = "idle"
    /\ fault' = "listing"
    /\ UNCHANGED <<server, style, run, pos, downloaded, disk, index, tmpFiles,
                   scratch, tarball, ext, started, prev, downloads, releases,
                   html>>

\* main, lines 184 to 189: no tags ends the run, else ensure_releases begins
AfterListing ==
    /\ pc = "listed"
    /\ IF tags = <<>>
       THEN /\ exit' = 0
            /\ pc' = "idle"
            /\ UNCHANGED <<pos, downloaded>>
       ELSE /\ pc' = "loop"
            /\ pos' = 1
            /\ downloaded' = <<>>
            /\ UNCHANGED exit
    /\ UNCHANGED <<server, style, run, url, tags, requests, disk, index,
                   tmpFiles, scratch, tarball, ext, started, prev, downloads,
                   releases, html, fault>>

(***************************************************************************)
(* ensure_releases: the body of its loop                                   *)
(***************************************************************************)
\* SkipTest without the test
SkipTestNever(d, t) == FALSE

\* lines 162 to 164
SkipTest(d, t) == Exists(d, t)

\* download_tarball, failure path: the temporary file is made and removed
FailedDownload(files, f) == Unlink(Create(files, f), f)

\* ScratchAfter without the finally clause
ScratchLeak(dirs, d) == Create(dirs, d)

\* extract_release, line 115
ScratchAfter(dirs, d) == Rmtree(Create(dirs, d), d)

\* ensure_releases, line 170
FilesAfter(files, f) == Unlink(files, f)

SkipTag ==
    /\ pc = "loop"
    /\ pos <= Len(tags)
    /\ SkipTest(disk, tags[pos])
    /\ pos' = pos + 1
    /\ UNCHANGED <<server, style, run, pc, url, tags, requests, downloaded,
                   disk, index, tmpFiles, scratch, tarball, ext, exit, started,
                   prev, downloads, releases, html, fault>>

\* download_tarball returns: the archive is in a new temporary file
Download(archives) ==
    /\ pc = "loop"
    /\ pos <= Len(tags)
    /\ ~SkipTest(disk, tags[pos])
    /\ \E f \in TmpNames \ tmpFiles, a \in archives :
          /\ tmpFiles' = Create(tmpFiles, f)
          /\ tarball' = [file |-> f, archive |-> a]
    /\ downloads' = downloads + 1
    /\ pc' = "downloaded"
    /\ UNCHANGED <<server, style, run, url, tags, requests, pos, downloaded,
                   disk, index, scratch, ext, exit, started, prev, releases,
                   html, fault>>

\* download_tarball raises; nothing catches it and the process exits with 1
DownloadFail ==
    /\ pc = "loop"
    /\ pos <= Len(tags)
    /\ ~SkipTest(disk, tags[pos])
    /\ \E f \in TmpNames \ tmpFiles : tmpFiles' = FailedDownload(tmpFiles, f)
    /\ downloads' = downloads + 1
    /\ exit' = 1
    /\ pc' = "idle"
    /\ fault' = "download"
    /\ UNCHANGED <<server, style, run, url, tags, requests, pos, downloaded,
                   disk, index, scratch, tarball, ext, started, prev, releases,
                   html>>

\* extract_release, from mkdtemp to its return or its exception
Extract ==
    /\ pc = "downloaded"
    /\ \E d \in ScratchNames \ scratch :
          LET x == Extraction(tarball.archive, d)
          IN  /\ ext' = [result |-> x.result, tag |-> tags[pos],
                         archive |-> tarball.archive, dir |-> d,
                         written |-> x.written, kind |-> x.kind]
              /\ disk' = IF x.result = "ok" THEN Move(disk, tags[pos], x.kind)
                         ELSE disk
              /\ scratch' = ScratchAfter(scratch, d)
    /\ pc' = "extracted"
    /\ UNCHANGED <<server, style, run, url, tags, requests, pos, downloaded,
                   index, tmpFiles, tarball, exit, started, prev, downloads,
                   releases, html, fault>>

\* tarfile.open raises: the file is no gzip-compressed archive
OpenFail ==
    /\ pc = "downloaded"
    /\ ext' = [NoExt EXCEPT !.result = "open", !.tag = tags[pos]]
    /\ pc' = "extracted"
    /\ UNCHANGED <<server, style, run, url, tags, requests, pos, downloaded,
                   disk, index, tmpFiles, scratch, tarball, exit, started, prev,
                   downloads, fault, releases, html>>

\* Finish with the failure caught per tag: the loop goes on to the next tag
FinishContinue ==
    /\ pc = "extracted"
    /\ tmpFiles' = FilesAfter(tmpFiles, tarball.file)
    /\ tarball' = NoTarball
    /\ ext' = NoExt
    /\ downloaded' = IF ext.result = "ok" THEN Append(downloaded, tags[pos])
                     ELSE downloaded
    /\ pos' = pos + 1
    /\ pc' = "loop"
    /\ fault' = IF ext.result = "ok" THEN fault ELSE "extract"
    /\ UNCHANGED <<server, style, run, url, tags, requests, disk, index,
                   scratch, exit, started, prev, downloads, releases, html>>

\* lines 168 to 170: the temporary file is removed; the path is recorded, or
\* the exception leaves main and the process exits with 1
Finish ==
    /\ pc = "extracted"
    /\ tmpFiles' = FilesAfter(tmpFiles, tarball.file)
    /\ tarball' = NoTarball
    /\ ext' = NoExt
    /\ IF ext.result = "ok"
       THEN /\ downloaded' = Append(downloaded, tags[pos])
            /\ pos' = pos + 1
            /\ pc' = "loop"
            /\ UNCHANGED exit
       ELSE /\ exit' = 1
            /\ pc' = "idle"
            /\ UNCHANGED <<downloaded, pos>>
    /\ fault' = IF ext.result = "ok" THEN fault ELSE "extract"
    /\ UNCHANGED <<server, style, run, url, tags, requests, disk, index,
                   scratch, started, prev, downloads, releases, html>>

(***************************************************************************)
(* main, lines 191 to 194                                                  *)
(***************************************************************************)
InTags(t, ts) == \E i \in 1..Len(ts) : ts[i] = t

\* AllReleases without the directories that were there already
AllReleasesNew(d, ts, dl) == {dl[i] : i \in 1..Len(dl)}

\* the paths the index is rendered from
AllReleases(d, ts, dl) ==
    {t \in TagNames : IsDir(d, t) /\ InTags(t, ts)} \cup {dl[i] : i \in 1..Len(dl)}

WriteIndex ==
    /\ pc = "loop"
    /\ pos > Len(tags)
    /\ \E s \in Enumerations(AllReleases(disk, tags, downloaded)) :
          index' = Some(render_index(s))
    /\ exit' = 0
    /\ pc' = "idle"
    /\ UNCHANGED <<server, style, run, url, tags, requests, pos, downloaded,
                   disk, tmpFiles, scratch, tarball, ext, started, prev,
                   downloads, fault, releases, html>>

Next ==
    \/ StartRun
    \/ FetchPage
    \/ FetchFail
    \/ AfterListing
    \/ SkipTag
    \/ Download(SmallArchives)
    \/ DownloadFail
    \/ Extract
    \/ OpenFail
    \/ Finish
    \/ WriteIndex

Spec == Init /\ [][Next]_vars

\* the extractor on every archive of the bounds
NextExtract ==
    \/ StartRun
    \/ FetchPage
    \/ FetchFail
    \/ AfterListing
    \/ SkipTag
    \/ Download(Archives)
    \/ DownloadFail
    \/ Extract
    \/ OpenFail
    \/ Finish
    \/ WriteIndex

SpecExtract == InitExtract /\ [][NextExtract]_vars

\* the tag lister alone
NextTags ==
    \/ StartRun
    \/ FetchPage

SpecTags == InitTags /\ [][NextTags]_vars

(***************************************************************************)
(* render_index on its own                                                 *)
(***************************************************************************)
ReleaseNames ==
    { <<"v", "1">>, <<"v", "2">>, <<"v", "9">>, <<"v", "1", "0">>,
      <<"v", "1", ".", "1">> }

\* the iterations of every set of at most MaxReleases release directories
ReleaseInputs ==
    UNION {Enumerations(S) : S \in {T \in SUBSET ReleaseNames : Cardinality(T) <= MaxReleases}}

InitIndex ==
    /\ server = <<>>
    /\ style = "spaced"
    /\ disk = [t \in TagNames |-> Absent]
    /\ index = None
    /\ releases \in ReleaseInputs
    /\ InitCommon

\* render_index(releases)
Render ==
    /\ pc = "idle"
    /\ html = None
    /\ html' = Some(render_index(releases))
    /\ pc' = "rendered"
    /\ UNCHANGED <<server, style, run, url, tags, requests, pos, downloaded,
                   disk, index, tmpFiles, scratch, tarball, ext, exit, started,
                   prev, downloads, fault, releases>>

NextIndex == Render

SpecIndex == InitIndex /\ [][NextIndex]_vars

(***************************************************************************)
(* Properties.                                                             *)
(***************************************************************************)
\* the tag names of pages 1..n of the remote, in order
RECURSIVE ConcatNames(_, _)
ConcatNames(srv, n) ==
    IF n = 0 THEN <<>> ELSE ConcatNames(srv, n - 1) \o srv[n].names

\* the names the document links to
Listed(doc) == {doc[1][i].text : i \in {j \in 1..Len(doc[1]) : doc[1][j].href # <<>>}}

ListedIn(ix) == IF ix = None THEN {} ELSE Listed(ix)

TagSet(ts) == {ts[i] : i \in 1..Len(ts)}

\* the paths created under a tag's name since the run began
CreatedInRun == {t \in TagNames : disk[t].stamp > started.disk[t].stamp}

RunEnded == pc = "idle" /\ run > 0

\* C1: for a remote of N pages of which all but the last name a next page,
\* fetch_all_tags requests the N pages, page k+1 at the URL page k names, and
\* returns the pages' tag names concatenated in that order; while it runs it
\* has requested k < N pages and holds the names of those k pages.
C1_Listing ==
    /\ pc = "fetch" =>
          /\ Len(requests) < Len(server)
          /\ url = Some(PageUrl(Len(requests) + 1))
          /\ tags = ConcatNames(server, Len(requests))
    /\ pc = "listed" =>
          /\ requests = [k \in 1..Len(server) |-> PageUrl(k)]
          /\ tags = ConcatNames(server, Len(server))

C1_Witness ==
    /\ pc = "listed"
    /\ Len(requests) >= 2
    /\ Len(tags) >= 2
    /\ StrLess(tags[1], tags[2])
    /\ style = "spaced"
    /\ server[1].extra = "before"

\* C2: when a request of the listing raises, on the first page or a later
\* one, the run ends with status 1, has downloaded nothing, has created
\* nothing in the working directory and has left index.html as it was.
C2_ListingFailure ==
    (RunEnded /\ fault = "listing") =>
        /\ exit = 1
        /\ tags = <<>>
        /\ downloads = 0
        /\ disk = started.disk
        /\ index = started.index

C2_Witness ==
    /\ RunEnded
    /\ fault = "listing"
    /\ Len(requests) = 2
    /\ index = OldIndex
    /\ \E t \in TagNames : ~Exists(disk, t)

\* C3: a run that follows a successful run against the same non-empty
\* remote tag list, and succeeds, downloads nothing and leaves an index.html
\* equal to the one the run before it wrote.
C3_SecondRun ==
    (RunEnded /\ prev.ran /\ prev.exit = 0 /\ exit = 0 /\ fault = "none"
        /\ tags # <<>>) =>
        /\ downloads = 0
        /\ index = prev.index

\* C4 as stated: at the end of every run that listed at least one tag,
\* index.html lists exactly the directories named by a listed tag that were
\* there before the run and the paths created in the run, and never a strict
\* subset of the directories on disk that a listed tag names.
C4_AnyRun ==
    (RunEnded /\ fault # "listing" /\ tags # <<>>) =>
        /\ ListedIn(index) =
              {t \in TagSet(tags) : IsDir(started.disk, t)} \cup CreatedInRun
        /\ ~(/\ ListedIn(index) # {t \in TagSet(tags) : IsDir(disk, t)}
             /\ ListedIn(index) \subseteq {t \in TagSet(tags) : IsDir(disk, t)})

\* C4, amended: at the end of a run that listed at least one tag and in which
\* no download or extraction raised, index.html lists exactly the directories
\* named by a listed tag that were there before the run and the paths created
\* in the run; a run that ends otherwise leaves index.html as it was.
C4_SuccessfulRun ==
    RunEnded =>
        IF fault = "none" /\ tags # <<>>
        THEN /\ index # None
             /\ Listed(index) =
                   {t \in TagSet(tags) : IsDir(started.disk, t)} \cup CreatedInRun
             /\ Len(index[1]) = Cardinality(Listed(index)) \/ Listed(index) = {}
        ELSE index = started.index

C4_Witness ==
    /\ RunEnded
    /\ fault = "none"
    /\ \E t \in TagSet(tags) : IsDir(started.disk, t) /\ t \in Listed(index)
    /\ \E t \in CreatedInRun : IsDir(disk, t) /\ t \in Listed(index)

\* whether member m of an archive extracted into dest lands outside dest
Outside(dest, m) == ~IsUnder(Resolve(JoinPath(dest, m.name)), dest)

HasOutside(a, d) == \E i \in 1..Len(a) : Outside(ScratchPath(d), a[i])

\* C5: extract_release of an archive with a member that resolves outside
\* the destination fails, has written no member at all, and produces
\* nothing under the tag's name.
C5_UnsafeArchive ==
    (pc = "extracted" /\ ext.result # "open" /\ HasOutside(ext.archive, ext.dir)) =>
        /\ ext.result # "ok"
        /\ ext.written = <<>>
        /\ ~Exists(disk, ext.tag)

\* the first segment of a member name
TopOf(m) == IF m.name.abs THEN <<"/">> ELSE m.name.segs[1]

\* whether the top level of an archive is exactly one directory
OneTopDirectory(a) ==
    /\ Cardinality({TopOf(a[i]) : i \in 1..Len(a)}) = 1
    /\ \E i \in 1..Len(a) : Len(a[i].name.segs) > 1 \/ a[i].type = "dir"

\* C6: extract_release succeeds only for an archive whose top level is
\* exactly one directory; for any other archive it fails and nothing exists
\* under the tag's name afterwards.
C6_Structure ==
    (pc = "extracted" /\ ext.result # "open") =>
        /\ ext.result = "ok" => OneTopDirectory(ext.archive)
        /\ ~OneTopDirectory(ext.archive) => (ext.result # "ok" /\ ~Exists(disk, ext.tag))

\* C7: in a run the path of a tag is created at most once, what existed
\* under a tag's name when the run began is unchanged, and no more downloads
\* are issued than there are listed tags with nothing under their name.
C7_CreatedOnce ==
    /\ \A t \in TagNames :
          /\ disk[t].stamp <= started.disk[t].stamp + 1
          /\ Exists(started.disk, t) => disk[t] = started.disk[t]
    /\ pc \in {"loop", "downloaded", "extracted"} =>
          downloads <= Cardinality({t \in TagSet(tags) : ~Exists(started.disk, t)})

C7_Witness ==
    /\ pc = "loop"
    /\ pos > Len(tags)
    /\ Len(tags) = 2
    /\ tags[1] = tags[2]
    /\ downloads = 1
    /\ IsDir(disk, tags[1])

\* C8: when the download or the extraction of the tag at position pos
\* raises, the run ends with status 1 without writing index.html, no tag
\* after that position was downloaded, and what was extracted for the tags
\* before it is on disk.
C8_TagFailure ==
    (RunEnded /\ fault \in {"download", "extract"}) =>
        /\ exit = 1
        /\ index = started.index
        /\ pos <= Len(tags)
        /\ downloads = Len(downloaded) + 1
        /\ Len(downloaded) < pos
        /\ \A i \in 1..(pos - 1) : Exists(disk, tags[i])
        /\ \A i \in 1..Len(downloaded) : disk[downloaded[i]].stamp = 1
        /\ \A t \in TagNames \ TagSet(SubSeq(tags, 1, pos - 1)) : disk[t] = started.disk[t]

C8_Witness ==
    /\ RunEnded
    /\ fault = "extract"
    /\ pos = 2
    /\ downloaded = <<tags[1]>>
    /\ tags[2] # tags[1]
    /\ IsDir(disk, tags[1])
    /\ index = OldIndex

\* C9: no scratch directory exists once extract_release has ended, and no
\* temporary archive file exists once the processing of a tag has ended.
C9_NoTemporaries ==
    /\ scratch = {}
    /\ pc \notin {"downloaded", "extracted"} => tmpFiles = {}
    /\ pc \in {"downloaded", "extracted"} => tmpFiles = {tarball.file}

C9_Witness ==
    /\ RunEnded
    /\ fault = "extract"
    /\ downloads = 2
    /\ tmpFiles = {}

\* a < b in lexicographic order of code points
LexLess(a, b) ==
    \E k \in 1..Len(b) :
        /\ k - 1 <= Len(a)
        /\ SubSeq(a, 1, k - 1) = SubSeq(b, 1, k - 1)
        /\ (Len(a) = k - 1 \/ Ord(a[k]) < Ord(b[k]))

\* C10: render_index emits one item per release, each linking to
\* <name>/docs/, in descending lexicographic order of the names; for no
\* release it emits the placeholder alone, which links to nothing.
C10_Rendered ==
    pc = "rendered" =>
        LET body == html[1]
        IN  IF releases = <<>>
            THEN Len(body) = 1 /\ body[1].href = <<>>
            ELSE /\ Len(body) = Len(releases)
                 /\ {body[i].text : i \in 1..Len(body)} = TagSet(releases)
                 /\ \A i \in 1..Len(body) : body[i].href = body[i].text \o DocsSuffix
                 /\ \A i, j \in 1..Len(body) :
                       i < j => LexLess(body[j].text, body[i].text)

C10_Witness ==
    /\ pc = "rendered"
    /\ releases = <<<<"v", "1", "0">>, <<"v", "9">>, <<"v", "2">>>>
    /\ Len(html[1]) = 3
    /\ html[1][1].text = <<"v", "9">>
    /\ html[1][3].text = <<"v", "1", "0">>

====
